---- MODULE Spec2Model ----
(***************************************************************************)
(* A model of safe-units: the generator of the bounded exponent arithmetic *)
(* tables, the unit formatter, and the generic measure built on top of     *)
(* them.                                                                   *)
(***************************************************************************)
EXTENDS Integers, Sequences, FiniteSets, TLC

VARIABLES
    generated,  \* the operator-type file emitted by the last genOperatorTypes run
    evaluated,  \* the last evaluation of the emitted uncurried type
    sortEngine, \* which Array.prototype.sort the runtime provides
    fmtUnit,    \* the unit handed to formatUnit
    fmtText,    \* what formatUnit returned for fmtUnit
    fmtFirst,   \* what formatUnit returned before fmtUnit was rearranged
    m,          \* the measure operations are called on
    other,      \* the measure passed as argument
    outcome,    \* what the last operation returned or threw
    unitU,      \* three unit vectors
    unitV,
    unitW,
    prodL,      \* a product of them, taken one way
    prodR,      \* the same product, taken the other way
    stage       \* which products prodL and prodR hold

(***************************************************************************)
(* The exponent domain.                                                    *)
(***************************************************************************)
MaxExponent == 3

\* EXPONENTS of ./common: the ordered list of supported exponents.
EXPONENTS == [i \in 1..(2 * MaxExponent + 1) |-> i - MaxExponent - 1]

Exponent == {EXPONENTS[i] : i \in 1..Len(EXPONENTS)}

\* Array.prototype.indexOf, 0-based, -1 when absent.
RECURSIVE indexOfFrom(_, _, _)
indexOfFrom(array, value, i) ==
    IF i > Len(array) THEN -1
    ELSE IF array[i] = value THEN i - 1
    ELSE indexOfFrom(array, value, i + 1)

indexOf(array, value) == indexOfFrom(array, value, 1)

\* isExponent(result, spec) of ./common, used by the inline generator.
isExponent(result) == result \in Exponent

(***************************************************************************)
(* The operator specifications handed to the generators.                   *)
(***************************************************************************)
Operators == {"add", "subtract", "multiply"}

\* options.compute
compute(op, left, right) ==
    CASE op = "add" -> left + right
      [] op = "subtract" -> left - right
      [] op = "multiply" -> left * right

\* options.specialCases: left exponent -> the type written in place of a table
specialCases(op) ==
    CASE op = "add" -> (0 :> "R")
      [] op = "subtract" -> << >>
      [] op = "multiply" -> (0 :> "0")

(***************************************************************************)
(* Generated lines.  A line is a record; kind is one of                    *)
(*   "header"   export type <name><N extends Exponent>                     *)
(*   "case"     <operator> N extends <test> ? <result>                     *)
(*   "special"  <operator> L extends <test> ? <type>                       *)
(*   "curried"  <operator> L extends <test> ? <name><R>   (or inline body) *)
(*   "error"    : <type>;                                                  *)
(*   "open", "close", "blank"                                              *)
(***************************************************************************)
Line(kind, operator, test, result, type, body) ==
    [kind |-> kind, operator |-> operator, test |-> test, result |-> result,
     type |-> type, body |-> body]

\* genErrorCase(): ": ArithmeticError;"
genErrorCase == Line("error", ":", 0, 0, "ArithmeticError", << >>)

\* the inline generator's fallthrough: "never"
neverCase == Line("error", ":", 0, 0, "never", << >>)

\* genCurriedTypeName(options, value)
genCurriedTypeName(op, value) == <<op, value>>

\* genCurriedCases without the test that the result is a supported exponent
RECURSIVE genCurriedCases_NoRangeCheck(_, _, _, _)
genCurriedCases_NoRangeCheck(op, left, i, first) ==
    IF i > Len(EXPONENTS) THEN << >>
    ELSE <<Line("case", IF first THEN "=" ELSE ":", EXPONENTS[i],
                compute(op, left, EXPONENTS[i]), "", << >>)>>
             \o genCurriedCases_NoRangeCheck(op, left, i + 1, FALSE)

\* genCurriedCases with the range test off by one at the upper end
RECURSIVE genCurriedCases_ShortRange(_, _, _, _)
genCurriedCases_ShortRange(op, left, i, first) ==
    IF i > Len(EXPONENTS) THEN << >>
    ELSE LET right == EXPONENTS[i]
             result == compute(op, left, right)
         IN  IF indexOf(EXPONENTS, result) # -1 /\ result # EXPONENTS[Len(EXPONENTS)]
             THEN <<Line("case", IF first THEN "=" ELSE ":", right, result, "", << >>)>>
                      \o genCurriedCases_ShortRange(op, left, i + 1, FALSE)
             ELSE genCurriedCases_ShortRange(op, left, i + 1, first)

\* genCurriedCases starting at the second right exponent
RECURSIVE genCurriedCases_SkipFirst(_, _, _, _)
genCurriedCases_SkipFirst(op, left, i, first) ==
    IF i > Len(EXPONENTS) THEN << >>
    ELSE LET right == EXPONENTS[i]
             result == compute(op, left, right)
         IN  IF indexOf(EXPONENTS, result) # -1 /\ i > 1
             THEN <<Line("case", IF first THEN "=" ELSE ":", right, result, "", << >>)>>
                      \o genCurriedCases_SkipFirst(op, left, i + 1, FALSE)
             ELSE genCurriedCases_SkipFirst(op, left, i + 1, first)

\* the loop of genCurriedType over EXPONENTS
RECURSIVE genCurriedCases(_, _, _, _)
genCurriedCases(op, left, i, first) ==
    IF i > Len(EXPONENTS) THEN << >>
    ELSE LET right == EXPONENTS[i]
             result == compute(op, left, right)
         IN  IF indexOf(EXPONENTS, result) # -1
             THEN <<Line("case", IF first THEN "=" ELSE ":", right, result, "", << >>)>>
                      \o genCurriedCases(op, left, i + 1, FALSE)
             ELSE genCurriedCases(op, left, i + 1, first)

\* genCurriedType(options, left) of the generator with named curried types
genCurriedType(op, left) ==
    <<Line("header", "", left, 0, "", << >>)>>
        \o genCurriedCases(op, left, 1, TRUE)
        \o <<genErrorCase, Line("blank", "", 0, 0, "", << >>)>>

\* the loop of the inline genCurriedType
RECURSIVE genInlineCases(_, _, _)
genInlineCases(op, left, i) ==
    IF i > Len(EXPONENTS) THEN << >>
    ELSE LET right == EXPONENTS[i]
             result == compute(op, left, right)
         IN  IF isExponent(result)
             THEN <<Line("case", "", right, result, "", << >>)>>
                      \o genInlineCases(op, left, i + 1)
             ELSE genInlineCases(op, left, i + 1)

\* genCurriedType(spec, exponents, left) of the inline generator
genCurriedTypeInline(op, left) ==
    <<Line("open", "", 0, 0, "", << >>)>>
        \o genInlineCases(op, left, 1)
        \o <<neverCase, Line("close", "", 0, 0, "", << >>)>>

\* the loop of genUncurriedType over the left exponents
RECURSIVE genUncurriedCases(_, _, _, _)
genUncurriedCases(op, inline, i, first) ==
    IF i > Len(EXPONENTS) THEN << >>
    ELSE LET left == EXPONENTS[i]
             operator == IF first THEN "=" ELSE ":"
         IN  (IF left \in DOMAIN specialCases(op)
              THEN <<Line("special", operator, left, 0, specialCases(op)[left], << >>)>>
              ELSE <<Line("curried", operator, left, 0, "",
                          IF inline THEN genCurriedTypeInline(op, left) ELSE << >>)>>)
                 \o genUncurriedCases(op, inline, i + 1, FALSE)

\* genUncurriedType(options)
genUncurriedType(op) ==
    genUncurriedCases(op, FALSE, 1, TRUE)
        \o <<genErrorCase, Line("blank", "", 0, 0, "", << >>)>>

\* genUncurriedType(spec, exponents) of the inline generator
genUncurriedTypeInline(op) ==
    genUncurriedCases(op, TRUE, 1, TRUE)
        \o <<neverCase, Line("blank", "", 0, 0, "", << >>)>>

\* genOperatorTypes(options): the uncurried type, then one curried type per
\* left exponent that is not a special case
genOperatorTypes(op) ==
    [generator |-> "curried", op |-> op,
     uncurried |-> genUncurriedType(op),
     curried |-> [left \in Exponent \ DOMAIN specialCases(op) |-> genCurriedType(op, left)]]

\* genOperatorTypes(spec) of the inline generator
genOperatorTypesInline(op) ==
    [generator |-> "inline", op |-> op,
     uncurried |-> genUncurriedTypeInline(op),
     curried |-> << >>]

(***************************************************************************)
(* Evaluation of the emitted conditional types.                            *)
(***************************************************************************)
ExponentType(value) == [kind |-> "exponent", value |-> value, name |-> ""]
ErrorType(name) == [kind |-> "error", value |-> 0, name |-> name]

\* a chain "N extends t1 ? r1 : N extends t2 ? r2 : ... : <error>"
RECURSIVE evalCases(_, _, _)
evalCases(lines, n, i) ==
    IF i > Len(lines) THEN ErrorType("malformed")
    ELSE IF lines[i].kind = "case" /\ lines[i].test = n THEN ExponentType(lines[i].result)
    ELSE IF lines[i].kind = "error" THEN ErrorType(lines[i].type)
    ELSE evalCases(lines, n, i + 1)

\* the type written for a special case: "R" is the right operand, "0" is zero
evalSpecial(type, r) == IF type = "R" THEN ExponentType(r) ELSE ExponentType(0)

RECURSIVE evalUncurried(_, _, _, _)
evalUncurried(file, l, r, i) ==
    LET lines == file.uncurried
    IN  IF i > Len(lines) THEN ErrorType("malformed")
        ELSE IF lines[i].kind = "special" /\ lines[i].test = l
             THEN evalSpecial(lines[i].type, r)
        ELSE IF lines[i].kind = "curried" /\ lines[i].test = l
             THEN evalCases(IF file.generator = "inline" THEN lines[i].body
                            ELSE file.curried[l], r, 1)
        ELSE IF lines[i].kind = "error" THEN ErrorType(lines[i].type)
        ELSE evalUncurried(file, l, r, i + 1)

\* <Op>Exponents<L, R> as the emitted file defines it
evalType(file, l, r) == evalUncurried(file, l, r, 1)

(***************************************************************************)
(* Strings are sequences of one-character strings.                         *)
(***************************************************************************)
\* UTF-16 code units of the characters that occur in symbols
CodeUnit(c) ==
    CASE c = "g" -> 103
      [] c = "k" -> 107
      [] c = "m" -> 109
      [] c = "s" -> 115

\* the relational comparison a < b of two strings
RECURSIVE stringLessFrom(_, _, _)
stringLessFrom(a, b, i) ==
    IF i > Len(a) THEN i <= Len(b)
    ELSE IF i > Len(b) THEN FALSE
    ELSE IF a[i] = b[i] THEN stringLessFrom(a, b, i + 1)
    ELSE CodeUnit(a[i]) < CodeUnit(b[i])

stringLess(a, b) == stringLessFrom(a, b, 1)

DecimalDigits == <<"0", "1", "2", "3", "4", "5", "6", "7", "8", "9">>

RECURSIVE digitsOf(_)
digitsOf(n) ==
    IF n < Len(DecimalDigits) THEN <<DecimalDigits[n + 1]>>
    ELSE digitsOf(n \div Len(DecimalDigits)) \o <<DecimalDigits[(n % Len(DecimalDigits)) + 1]>>

\* `${n}` for an integer n
numberToString(n) == IF n < 0 THEN <<"-">> \o digitsOf(-n) ELSE digitsOf(n)

\* Array.prototype.join
RECURSIVE join(_, _)
join(parts, separator) ==
    IF Len(parts) = 0 THEN << >>
    ELSE IF Len(parts) = 1 THEN parts[1]
    ELSE parts[1] \o separator \o join(Tail(parts), separator)

(***************************************************************************)
(* Units with symbols: dimension -> [symbol, exponent] | undefined.        *)
(* A unit handed to formatUnit is the list of its keys in Object.keys      *)
(* order, each with its value.                                             *)
(***************************************************************************)
Dimensions == {"length", "mass", "time"}

Undefined == [defined |-> FALSE, symbol |-> << >>, exponent |-> 0]

SymbolAndExponent(symbol, exponent) ==
    [defined |-> TRUE, symbol |-> symbol, exponent |-> exponent]

\* isDimensionPresent(dimension)
isDimensionPresent(dimension) == dimension # Undefined /\ dimension.exponent # 0

\* orderDimensions with the comparison the wrong way round
orderDimensions_Reversed(left, right) ==
    IF stringLess(right.symbol, left.symbol) THEN -1 ELSE 1

\* orderDimensions([leftSymbol], [rightSymbol])
orderDimensions(left, right) == IF stringLess(left.symbol, right.symbol) THEN -1 ELSE 1

(***************************************************************************)
(* Array.prototype.sort(comparefn).  orderDimensions never returns 0, so   *)
(* for two dimensions with the same symbol it is not a consistent          *)
(* comparator and the order of the two is left to the engine.  Two engines *)
(* are modelled: insertion sort scanning from the right (shift while       *)
(* comparefn(a[j], element) > 0) and binary insertion (insert where        *)
(* comparefn(pivot, a[mid]) < 0 first holds).                              *)
(***************************************************************************)
SortEngines == {"insertion", "binaryInsertion"}

\* insertion sort: the position after the last j with comparefn(a[j], element) <= 0
RECURSIVE insertionPoint(_, _, _)
insertionPoint(sorted, element, j) ==
    IF j >= 1 /\ orderDimensions(sorted[j], element) > 0
    THEN insertionPoint(sorted, element, j - 1)
    ELSE j

\* binary insertion: the number of elements with comparefn(pivot, a[mid]) >= 0
RECURSIVE binaryInsertionPoint(_, _, _)
binaryInsertionPoint(sorted, pivot, left) ==
    IF left <= Len(sorted) /\ ~(orderDimensions(pivot, sorted[left]) < 0)
    THEN binaryInsertionPoint(sorted, pivot, left + 1)
    ELSE left - 1

insertAfter(sorted, k, element) ==
    SubSeq(sorted, 1, k) \o <<element>> \o SubSeq(sorted, k + 1, Len(sorted))

RECURSIVE sortFrom(_, _, _, _)
sortFrom(engine, array, sorted, i) ==
    IF i > Len(array) THEN sorted
    ELSE sortFrom(engine, array,
                  insertAfter(sorted,
                              IF engine = "insertion"
                              THEN insertionPoint(sorted, array[i], Len(sorted))
                              ELSE binaryInsertionPoint(sorted, array[i], 1),
                              array[i]),
                  i + 1)

\* array.sort(orderDimensions)
sort(engine, array) == sortFrom(engine, array, << >>, 1)

(***************************************************************************)
(* formatUnit                                                              *)
(***************************************************************************)
\* ([symbol, exponent]) => `${symbol}${exponentStr}`
formatDimension(dimension) ==
    LET exponentStr == IF dimension.exponent # 1
                       THEN <<"^">> \o numberToString(dimension.exponent)
                       ELSE << >>
    IN  dimension.symbol \o exponentStr

\* formatDimensions(dimensions)
formatDimensions(dimensions) ==
    join([i \in 1..Len(dimensions) |-> formatDimension(dimensions[i])], <<" ", "*", " ">>)

\* negateDimension([symbol, exponent])
negateDimension(dimension) == SymbolAndExponent(dimension.symbol, -dimension.exponent)

\* maybeParenthesize(text, parenthesize)
maybeParenthesize(text, parenthesize) ==
    IF parenthesize THEN <<"(">> \o text \o <<")">> ELSE text

isPositive(dimension) == dimension.exponent > 0
isNegative(dimension) == dimension.exponent < 0

\* formatUnit without the branch for a unit that has no positive exponent
formatUnit_NoNegativeBranch(engine, unit) ==
    LET values == [i \in 1..Len(unit) |-> unit[i].value]
        dimensions == sort(engine, SelectSeq(values, isDimensionPresent))
        positive == SelectSeq(dimensions, isPositive)
        negative == SelectSeq(dimensions, isNegative)
        numerator == formatDimensions(positive)
        denominator ==
            formatDimensions([i \in 1..Len(negative) |-> negateDimension(negative[i])])
    IN  IF Len(dimensions) = 0 THEN << >>
        ELSE IF Len(negative) = 0 THEN numerator
        ELSE numerator \o <<" ", "/", " ">>
                 \o maybeParenthesize(denominator, Len(negative) # 1)

\* formatUnit(unit)
formatUnit(engine, unit) ==
    LET values == [i \in 1..Len(unit) |-> unit[i].value]
        dimensions == sort(engine, SelectSeq(values, isDimensionPresent))
        positive == SelectSeq(dimensions, isPositive)
        negative == SelectSeq(dimensions, isNegative)
        numerator == formatDimensions(positive)
        denominator ==
            formatDimensions([i \in 1..Len(negative) |-> negateDimension(negative[i])])
    IN  IF Len(dimensions) = 0 THEN << >>
        ELSE IF Len(positive) = 0 THEN formatDimensions(negative)
        ELSE IF Len(negative) = 0 THEN numerator
        ELSE numerator \o <<" ", "/", " ">>
                 \o maybeParenthesize(denominator, Len(negative) # 1)

(***************************************************************************)
(* The units formatUnit is given in the model.                             *)
(***************************************************************************)
\* the display symbols a dimension may be declared with
SymbolChoices(dimension) ==
    CASE dimension = "length" -> {<<"m">>}
      [] dimension = "mass" -> {<<"k", "g">>, <<"m">>}
      [] dimension = "time" -> {<<"s">>, <<"m", "s">>}

ValueChoices(dimension) ==
    {Undefined} \cup
    {SymbolAndExponent(s, e) : s \in SymbolChoices(dimension), e \in Exponent}

KeyOrders ==
    {keys \in UNION {[1..n -> Dimensions] : n \in 0..Cardinality(Dimensions)} :
        \A i, j \in 1..Len(keys) : i # j => keys[i] # keys[j]}

keysOfOrder(keys) == {keys[i] : i \in 1..Len(keys)}

\* the units with the given keys, in that order
RECURSIVE UnitsWithKeys(_)
UnitsWithKeys(keys) ==
    IF Len(keys) = 0 THEN {<< >>}
    ELSE {<<[dimension |-> Head(keys), value |-> value]>> \o rest :
             value \in ValueChoices(Head(keys)), rest \in UnitsWithKeys(Tail(keys))}

\* every unit over the given dimensions, in every key order
FormatUnits(dimensions) ==
    UNION {UnitsWithKeys(keys) : keys \in {k \in KeyOrders : keysOfOrder(k) \subseteq dimensions}}

keysOf(unit) == {unit[i].dimension : i \in 1..Len(unit)}

NotFormatted == <<"?">>

(***************************************************************************)
(* The numeric operations a measure is built on, for exact fractions       *)
(* [num, den] in lowest terms with den > 0; den = 0 is a non-finite value. *)
(***************************************************************************)
RECURSIVE gcd(_, _)
gcd(a, b) == IF b = 0 THEN a ELSE gcd(b, a % b)

abs(a) == IF a < 0 THEN -a ELSE a

NotFinite == [num |-> 0, den |-> 0]

fraction(num, den) ==
    IF den = 0 THEN NotFinite
    ELSE LET g == gcd(abs(num), abs(den))
             sign == IF den < 0 THEN -1 ELSE 1
         IN  [num |-> (sign * num) \div g, den |-> (sign * den) \div g]

finite(a, b) == a.den # 0 /\ b.den # 0

\* one()
one == fraction(1, 1)

\* neg(value)
neg(value) == fraction(-value.num, value.den)

\* add(left, right)
add(left, right) ==
    IF finite(left, right)
    THEN fraction(left.num * right.den + right.num * left.den, left.den * right.den)
    ELSE NotFinite

\* sub(left, right)
sub(left, right) ==
    IF finite(left, right)
    THEN fraction(left.num * right.den - right.num * left.den, left.den * right.den)
    ELSE NotFinite

\* mult that adds
mult_Adds(left, right) ==
    IF finite(left, right)
    THEN fraction(left.num * right.den + right.num * left.den, left.den * right.den)
    ELSE NotFinite

\* mult(left, right)
mult(left, right) ==
    IF finite(left, right)
    THEN fraction(left.num * right.num, left.den * right.den)
    ELSE NotFinite

\* div(left, right)
div(left, right) ==
    IF finite(left, right)
    THEN fraction(left.num * right.den, left.den * right.num)
    ELSE NotFinite

\* pow(base, exponent)
RECURSIVE pow(_, _)
pow(base, exponent) ==
    IF exponent = 0 THEN one
    ELSE IF exponent < 0 THEN div(one, pow(base, -exponent))
    ELSE mult(base, pow(base, exponent - 1))

\* compare(left, right): negative, zero or positive
compare(left, right) ==
    IF finite(left, right) THEN left.num * right.den - right.num * left.den ELSE 0

(***************************************************************************)
(* Exponent arithmetic: the emitted tables.                                *)
(***************************************************************************)
AddExponentsTable == genOperatorTypes("add")
SubtractExponentsTable == genOperatorTypes("subtract")
MultiplyExponentsTable == genOperatorTypes("multiply")

addExponents(a, b) == evalType(AddExponentsTable, a, b)
subExponents(a, b) == evalType(SubtractExponentsTable, a, b)
scaleExponent(a, k) == evalType(MultiplyExponentsTable, a, k)

(***************************************************************************)
(* Unit vector algebra.  A unit vector maps each dimension to              *)
(* [symbol, exponent] or undefined.                                        *)
(***************************************************************************)
\* the dimensions of the measures of the model, in the order they are visited
UnitDimensions == <<"length", "time">>

UnitDimensionSet == {UnitDimensions[i] : i \in 1..Len(UnitDimensions)}

BaseSymbol(dimension) == IF dimension = "length" THEN <<"m">> ELSE <<"s">>

dimensionless == [d \in UnitDimensionSet |-> Undefined]

\* u[d] or 0
exponentOf(unit, d) == IF unit[d] = Undefined THEN 0 ELSE unit[d].exponent

UnitResult(unit) == [ok |-> TRUE, unit |-> unit, error |-> ""]
UnitFailure(error) == [ok |-> FALSE, unit |-> dimensionless, error |-> error]

\* combineFrom that leaves out a dimension whose exponent leaves the domain
RECURSIVE combineFrom_SkipsOverflow(_, _, _, _, _)
combineFrom_SkipsOverflow(left, right, subtract, i, acc) ==
    IF i > Len(UnitDimensions) THEN UnitResult(acc)
    ELSE LET d == UnitDimensions[i]
             result == IF subtract
                       THEN subExponents(exponentOf(left, d), exponentOf(right, d))
                       ELSE addExponents(exponentOf(left, d), exponentOf(right, d))
             symbol == IF left[d] # Undefined THEN left[d].symbol ELSE right[d].symbol
         IN  IF (left[d] = Undefined /\ right[d] = Undefined) \/ result.kind = "error"
             THEN combineFrom_SkipsOverflow(left, right, subtract, i + 1, acc)
             ELSE IF result.value = 0
                  THEN combineFrom_SkipsOverflow(left, right, subtract, i + 1, acc)
             ELSE combineFrom_SkipsOverflow(left, right, subtract, i + 1,
                      [acc EXCEPT ![d] = SymbolAndExponent(symbol, result.value)])

\* one dimension at a time; the first exponent that leaves the domain fails
\* the whole operation; a dimension whose result is 0 is omitted
RECURSIVE combineFrom(_, _, _, _, _)
combineFrom(left, right, subtract, i, acc) ==
    IF i > Len(UnitDimensions) THEN UnitResult(acc)
    ELSE LET d == UnitDimensions[i]
             result == IF subtract
                       THEN subExponents(exponentOf(left, d), exponentOf(right, d))
                       ELSE addExponents(exponentOf(left, d), exponentOf(right, d))
             symbol == IF left[d] # Undefined THEN left[d].symbol ELSE right[d].symbol
         IN  IF left[d] = Undefined /\ right[d] = Undefined
             THEN combineFrom(left, right, subtract, i + 1, acc)
             ELSE IF result.kind = "error" THEN UnitFailure("ArithmeticError")
             ELSE IF result.value = 0
                  THEN combineFrom(left, right, subtract, i + 1, acc)
             ELSE combineFrom(left, right, subtract, i + 1,
                              [acc EXCEPT ![d] = SymbolAndExponent(symbol, result.value)])

multiplyUnits(left, right) == combineFrom(left, right, FALSE, 1, dimensionless)

divideUnits(left, right) == combineFrom(left, right, TRUE, 1, dimensionless)

RECURSIVE exponentiateFrom(_, _, _, _)
exponentiateFrom(unit, power, i, acc) ==
    IF i > Len(UnitDimensions) THEN UnitResult(acc)
    ELSE LET d == UnitDimensions[i]
             result == scaleExponent(exponentOf(unit, d), power)
         IN  IF unit[d] = Undefined THEN exponentiateFrom(unit, power, i + 1, acc)
             ELSE IF result.kind = "error" THEN UnitFailure("ArithmeticError")
             ELSE IF result.value = 0 THEN exponentiateFrom(unit, power, i + 1, acc)
             ELSE exponentiateFrom(unit, power, i + 1,
                                   [acc EXCEPT ![d] = SymbolAndExponent(unit[d].symbol,
                                                                        result.value)])

exponentiateUnit(unit, power) == exponentiateFrom(unit, power, 1, dimensionless)

\* the (dimension, exponent) pairs of a unit with the zero exponents removed
canonical(unit) ==
    {<<d, unit[d].exponent>> : d \in {x \in UnitDimensionSet : isDimensionPresent(unit[x])}}

\* isCompatible that takes a zero exponent for a dimension of its own
isCompatible_KeepsZeros(left, right) == left = right

isCompatible(left, right) == canonical(left) = canonical(right)

\* AllowedExponents<U>: the powers that keep every exponent of the unit in range
AllowedExponents(unit) == {e \in Exponent : exponentiateUnit(unit, e).ok}

(***************************************************************************)
(* Measures.                                                               *)
(***************************************************************************)
NoSymbol == << >>

Measure(value, unit, symbol) == [value |-> value, unit |-> unit, symbol |-> symbol]

NoMeasure == Measure(NotFinite, dimensionless, NoSymbol)

\* a call and what it returned: a measure, a number, a boolean, or the error
\* thrown; power is the exponent the call was given, 0 when it takes none
Returned(op, measure) ==
    [op |-> op, power |-> 0, status |-> "ok", measure |-> measure, number |-> 0,
     truth |-> FALSE]
ReturnedNumber(op, number) ==
    [op |-> op, power |-> 0, status |-> "ok", measure |-> NoMeasure, number |-> number,
     truth |-> FALSE]
ReturnedBoolean(op, truth) ==
    [op |-> op, power |-> 0, status |-> "ok", measure |-> NoMeasure, number |-> 0,
     truth |-> truth]
Thrown(op, error) ==
    [op |-> op, power |-> 0, status |-> error, measure |-> NoMeasure, number |-> 0,
     truth |-> FALSE]

NoOutcome == Thrown("none", "none")

\* toThe(exponent)
toThe(op, this, exponent) ==
    LET unit == exponentiateUnit(this.unit, exponent)
    IN  [(IF unit.ok
          THEN Returned(op, Measure(pow(this.value, exponent), unit.unit, NoSymbol))
          ELSE Thrown(op, unit.error)) EXCEPT !.power = exponent]

\* plus(other)
plus(this, that) ==
    IF isCompatible(this.unit, that.unit)
    THEN Returned("plus", Measure(add(this.value, that.value), this.unit, NoSymbol))
    ELSE Thrown("plus", "UnitMismatchError")

\* minus(other)
minus(this, that) ==
    IF isCompatible(this.unit, that.unit)
    THEN Returned("minus", Measure(sub(this.value, that.value), this.unit, NoSymbol))
    ELSE Thrown("minus", "UnitMismatchError")

\* negate()
negate(this) == Returned("negate", Measure(neg(this.value), this.unit, NoSymbol))

\* times(other)
times(this, that) ==
    LET unit == multiplyUnits(this.unit, that.unit)
    IN  IF unit.ok
        THEN Returned("times", Measure(mult(this.value, that.value), unit.unit, NoSymbol))
        ELSE Thrown("times", unit.error)

\* over(other); per and div are the same operation
over(op, this, that) ==
    LET unit == divideUnits(this.unit, that.unit)
    IN  IF unit.ok
        THEN Returned(op, Measure(div(this.value, that.value), unit.unit, NoSymbol))
        ELSE Thrown(op, unit.error)

\* compare(other)
compareMeasures(this, that) ==
    IF isCompatible(this.unit, that.unit)
    THEN ReturnedNumber("compare", compare(this.value, that.value))
    ELSE Thrown("compare", "UnitMismatchError")

\* lt, lte, eq, neq, gte, gt
comparison(op, this, that) ==
    LET c == compareMeasures(this, that)
    IN  IF c.status # "ok" THEN Thrown(op, c.status)
        ELSE ReturnedBoolean(op,
                 CASE op = "lt" -> c.number < 0
                   [] op = "lte" -> c.number <= 0
                   [] op = "eq" -> c.number = 0
                   [] op = "neq" -> c.number # 0
                   [] op = "gte" -> c.number >= 0
                   [] op = "gt" -> c.number > 0)

(***************************************************************************)
(* The measures operations are tried on.                                   *)
(***************************************************************************)
\* the values of the measures operations are tried on
InitValues == {one, fraction(1, 2), fraction(2, 1)}

UnitValueChoices(d) ==
    {Undefined} \cup {SymbolAndExponent(BaseSymbol(d), e) : e \in Exponent}

\* every unit vector over the exponent domain, zero entries included
Units == {unit \in [UnitDimensionSet -> UNION {UnitValueChoices(d) : d \in UnitDimensionSet}] :
             \A d \in UnitDimensionSet : unit[d] \in UnitValueChoices(d)}

\* Measure.dimension(...): value one(), one dimension to the first power
BaseMeasures ==
    {Measure(one, [dimensionless EXCEPT ![d] = SymbolAndExponent(BaseSymbol(d), 1)],
             BaseSymbol(d)) : d \in UnitDimensionSet}

\* the powers passed to toThe
Powers == (-(MaxExponent + 1))..(MaxExponent + 1)

NoFile == [generator |-> "none", op |-> "", uncurried |-> << >>, curried |-> << >>]
NoEvaluation == [left |-> 0, right |-> 0, type |-> ErrorType("none")]
NoProduct == UnitFailure("none")

vars == <<generated, evaluated, sortEngine, fmtUnit, fmtText, fmtFirst,
          m, other, outcome, unitU, unitV, unitW, prodL, prodR, stage>>

genVars == <<generated, evaluated>>
fmtVars == <<sortEngine, fmtUnit, fmtText, fmtFirst>>
measureVars == <<m, other, outcome>>
unitVars == <<unitU, unitV, unitW, prodL, prodR, stage>>

GenIdle == generated = NoFile /\ evaluated = NoEvaluation
FmtIdle ==
    /\ sortEngine = "insertion"
    /\ fmtUnit = << >>
    /\ fmtText = NotFormatted
    /\ fmtFirst = NotFormatted
MeasureIdle == m = NoMeasure /\ other = NoMeasure /\ outcome = NoOutcome
UnitIdle ==
    /\ unitU = dimensionless /\ unitV = dimensionless /\ unitW = dimensionless
    /\ prodL = NoProduct /\ prodR = NoProduct /\ stage = "start"

(***************************************************************************)
(* The generators and the evaluation of what they emit.                    *)
(***************************************************************************)
GenInit == GenIdle /\ FmtIdle /\ MeasureIdle /\ UnitIdle

GenOperatorTypes ==
    /\ \E op \in Operators :
        /\ generated' = genOperatorTypes(op)
        /\ evaluated' = NoEvaluation
    /\ UNCHANGED <<fmtVars, measureVars, unitVars>>

GenOperatorTypesInline ==
    /\ \E op \in Operators :
        /\ generated' = genOperatorTypesInline(op)
        /\ evaluated' = NoEvaluation
    /\ UNCHANGED <<fmtVars, measureVars, unitVars>>

EvaluateType ==
    /\ generated # NoFile
    /\ \E l \in Exponent, r \in Exponent :
        evaluated' = [left |-> l, right |-> r, type |-> evalType(generated, l, r)]
    /\ UNCHANGED <<generated, fmtVars, measureVars, unitVars>>

GenNext == GenOperatorTypes \/ GenOperatorTypesInline \/ EvaluateType

SpecGen == GenInit /\ [][GenNext]_vars

(***************************************************************************)
(* Formatting.  A caller formats a unit, may hand over the same unit with  *)
(* its keys in another order or with absent dimensions added or removed,   *)
(* and formats again.                                                      *)
(***************************************************************************)
FmtInit ==
    /\ GenIdle /\ MeasureIdle /\ UnitIdle
    /\ sortEngine \in SortEngines
    /\ fmtUnit \in FormatUnits(Dimensions)
    /\ fmtText = NotFormatted
    /\ fmtFirst = NotFormatted

FormatUnit ==
    /\ fmtText = NotFormatted
    /\ fmtText' = formatUnit(sortEngine, fmtUnit)
    /\ UNCHANGED <<genVars, measureVars, unitVars, sortEngine, fmtUnit, fmtFirst>>

\* the text of the first formatting is kept while the unit is rearranged
Rearranged(unit) ==
    /\ fmtText # NotFormatted
    /\ fmtUnit' = unit
    /\ fmtFirst' = IF fmtFirst = NotFormatted THEN fmtText ELSE fmtFirst
    /\ fmtText' = NotFormatted
    /\ UNCHANGED <<genVars, measureVars, unitVars, sortEngine>>

\* the same unit with two neighbouring keys exchanged
PermuteKeys ==
    \E i \in 1..(Len(fmtUnit) - 1) :
        Rearranged([k \in 1..Len(fmtUnit) |->
                       IF k = i THEN fmtUnit[i + 1]
                       ELSE IF k = i + 1 THEN fmtUnit[i]
                       ELSE fmtUnit[k]])

\* the same unit with one more key whose value is undefined or has exponent 0
AddAbsentDimension ==
    \E d \in Dimensions \ keysOf(fmtUnit) :
        \E value \in {x \in ValueChoices(d) : ~isDimensionPresent(x)} :
            Rearranged(Append(fmtUnit, [dimension |-> d, value |-> value]))

\* the same unit without a key whose value is undefined or has exponent 0
RemoveAbsentDimension ==
    \E i \in 1..Len(fmtUnit) :
        /\ ~isDimensionPresent(fmtUnit[i].value)
        /\ Rearranged(SubSeq(fmtUnit, 1, i - 1) \o SubSeq(fmtUnit, i + 1, Len(fmtUnit)))

FmtNext == FormatUnit \/ PermuteKeys \/ AddAbsentDimension \/ RemoveAbsentDimension

SpecFormat == FmtInit /\ [][FmtNext]_vars

(***************************************************************************)
(* Measure operations.  Every operation returns a new measure (or a        *)
(* number, or a boolean) or throws; it writes neither its receiver nor its *)
(* argument.                                                               *)
(***************************************************************************)
Call(result) ==
    /\ outcome = NoOutcome
    /\ outcome' = result
    /\ UNCHANGED <<m, other, genVars, fmtVars, unitVars>>

ToThe == \E exponent \in Powers : Call(toThe("toThe", m, exponent))

\* squared and cubed exist only when 2 and 3 are allowed exponents of the unit
Squared ==
    /\ outcome = NoOutcome
    /\ 2 \in AllowedExponents(m.unit)
    /\ Call(toThe("squared", m, 2))
Cubed ==
    /\ outcome = NoOutcome
    /\ 3 \in AllowedExponents(m.unit)
    /\ Call(toThe("cubed", m, 3))

Plus == Call(plus(m, other))
Minus == Call(minus(m, other))
Negate == Call(negate(m))
Times == Call(times(m, other))
Over == Call(over("over", m, other))
Per == Call(over("per", m, other))
Div == Call(over("div", m, other))
Inverse == Call(toThe("inverse", m, -1))
Reciprocal == Call(toThe("reciprocal", m, -1))
Compare == Call(compareMeasures(m, other))
Lt == Call(comparison("lt", m, other))
Lte == Call(comparison("lte", m, other))
Eq == Call(comparison("eq", m, other))
Neq == Call(comparison("neq", m, other))
Gte == Call(comparison("gte", m, other))
Gt == Call(comparison("gt", m, other))

\* the caller drops what the last call returned
Discard ==
    /\ outcome # NoOutcome
    /\ outcome' = NoOutcome
    /\ UNCHANGED <<m, other, genVars, fmtVars, unitVars>>

MeasureInit ==
    /\ GenIdle /\ FmtIdle /\ UnitIdle
    /\ m \in {Measure(value, unit, NoSymbol) : value \in InitValues, unit \in Units}
    /\ other \in {Measure(one, unit, NoSymbol) : unit \in Units}
    /\ outcome = NoOutcome

MeasureNext ==
    \/ ToThe \/ Squared \/ Cubed \/ Plus \/ Minus \/ Negate \/ Times
    \/ Over \/ Per \/ Div \/ Inverse \/ Reciprocal
    \/ Compare \/ Lt \/ Lte \/ Eq \/ Neq \/ Gte \/ Gt \/ Discard

SpecMeasure == MeasureInit /\ [][MeasureNext]_vars

(***************************************************************************)
(* Quantities: measures derived from the base measures by multiplication,  *)
(* division and exponentiation, each result kept for further derivation.   *)
(***************************************************************************)
Keep ==
    /\ outcome.status = "ok"
    /\ outcome.measure # NoMeasure
    /\ m' = outcome.measure
    /\ outcome' = NoOutcome
    /\ UNCHANGED <<other, genVars, fmtVars, unitVars>>

KeepAsOther ==
    /\ outcome.status = "ok"
    /\ outcome.measure # NoMeasure
    /\ other' = outcome.measure
    /\ outcome' = NoOutcome
    /\ UNCHANGED <<m, genVars, fmtVars, unitVars>>

QuantityInit ==
    /\ GenIdle /\ FmtIdle /\ UnitIdle
    /\ m \in BaseMeasures
    /\ other \in BaseMeasures
    /\ outcome = NoOutcome

QuantityNext ==
    \/ ToThe \/ Squared \/ Cubed \/ Times \/ Over \/ Per \/ Div
    \/ Inverse \/ Reciprocal \/ Keep \/ KeepAsOther \/ Discard

SpecQuantity == QuantityInit /\ [][QuantityNext]_vars

(***************************************************************************)
(* Products of three unit vectors, taken both ways.                        *)
(***************************************************************************)
CanonicalUnits == {unit \in Units : \A d \in UnitDimensionSet : unit[d] = Undefined
                                        \/ unit[d].exponent # 0}

\* the canonical units whose exponents are 1 or the largest, either sign
BoundaryUnits ==
    {unit \in CanonicalUnits :
        \A d \in UnitDimensionSet :
            exponentOf(unit, d) \in {-MaxExponent, -1, 0, 1, MaxExponent}}

UnitInit ==
    /\ GenIdle /\ FmtIdle /\ MeasureIdle
    /\ unitU \in Units
    /\ unitV \in CanonicalUnits
    /\ unitW \in BoundaryUnits
    /\ prodL = NoProduct /\ prodR = NoProduct /\ stage = "start"

\* u * v and v * u
Commute ==
    /\ stage = "start"
    /\ prodL' = multiplyUnits(unitU, unitV)
    /\ prodR' = multiplyUnits(unitV, unitU)
    /\ stage' = "commuted"
    /\ UNCHANGED <<unitU, unitV, unitW, genVars, fmtVars, measureVars>>

\* u * v and v * w
Inner ==
    /\ stage = "start"
    /\ prodL' = multiplyUnits(unitU, unitV)
    /\ prodR' = multiplyUnits(unitV, unitW)
    /\ stage' = "inner"
    /\ UNCHANGED <<unitU, unitV, unitW, genVars, fmtVars, measureVars>>

\* (u * v) * w and u * (v * w)
Outer ==
    /\ stage = "inner"
    /\ prodL.ok /\ prodR.ok
    /\ prodL' = multiplyUnits(prodL.unit, unitW)
    /\ prodR' = multiplyUnits(unitU, prodR.unit)
    /\ stage' = "outer"
    /\ UNCHANGED <<unitU, unitV, unitW, genVars, fmtVars, measureVars>>

UnitNext == Commute \/ Inner \/ Outer

SpecUnits == UnitInit /\ [][UnitNext]_vars

(***************************************************************************)
(* Properties of the generated exponent tables.                            *)
(***************************************************************************)
InDomain(x) == -MaxExponent <= x /\ x <= MaxExponent

\* the fallthrough type of the generator that emitted the file
Fallthrough(file) == IF file.generator = "curried" THEN "ArithmeticError" ELSE "never"

\* the table emitted for a left exponent that is not a special case
TableOf(file, left) ==
    IF file.generator = "curried" THEN file.curried[left]
    ELSE LET i == CHOOSE k \in 1..Len(file.uncurried) :
                      file.uncurried[k].kind = "curried" /\ file.uncurried[k].test = left
         IN  file.uncurried[i].body

CasesOf(lines) == {i \in 1..Len(lines) : lines[i].kind = "case"}

Arith(op, a, b) == IF op = "add" THEN a + b ELSE IF op = "subtract" THEN a - b ELSE a * b

PresentKeys(unit) == {i \in 1..Len(unit) : isDimensionPresent(unit[i].value)}
PositiveKeys(unit) == {i \in PresentKeys(unit) : unit[i].value.exponent > 0}
NegativeKeys(unit) == {i \in PresentKeys(unit) : unit[i].value.exponent < 0}

PresentPairs(unit) ==
    {<<unit[i].value.symbol, unit[i].value.exponent>> : i \in PresentKeys(unit)}

\* the unit's dimensions with a non-zero exponent are exactly the given
\* (symbol, exponent) pairs, one dimension each
HasExactly(unit, pairs) ==
    PresentPairs(unit) = pairs /\ Cardinality(PresentKeys(unit)) = Cardinality(pairs)

\* the arrangements of a set of keys in ascending symbol order
Ascending(unit, keys) ==
    {a \in [1..Cardinality(keys) -> keys] :
        /\ \A i, j \in 1..Cardinality(keys) : i # j => a[i] # a[j]
        /\ \A i, j \in 1..Cardinality(keys) :
              i < j => ~stringLess(unit[a[j]].value.symbol, unit[a[i]].value.symbol)}

\* "<symbol>" or "<symbol>^<exponent>", the exponent multiplied by sign
Term(unit, key, sign) ==
    LET shown == sign * unit[key].value.exponent
    IN  unit[key].value.symbol
            \o (IF shown = 1 THEN << >> ELSE <<"^">> \o numberToString(shown))

RECURSIVE Product(_, _, _, _)
Product(unit, arrangement, sign, i) ==
    IF i > Len(arrangement) THEN << >>
    ELSE (IF i = 1 THEN << >> ELSE <<" ", "*", " ">>)
             \o Term(unit, arrangement[i], sign)
             \o Product(unit, arrangement, sign, i + 1)

Contains(text, part) ==
    \E i \in 1..(Len(text) - Len(part) + 1) : SubSeq(text, i, i + Len(part) - 1) = part

\* C4: a unit with positive and negative exponents formats as
\* "<numerator> / <denominator>", the numerator being the positive dimensions
\* in ascending symbol order joined by " * ", the denominator the negative
\* ones in ascending symbol order with exponents negated, "^<exponent>" shown
\* exactly when the exponent is not 1, the denominator parenthesized exactly
\* when it has more than one dimension; only positive exponents give the
\* numerator alone, no non-zero exponent gives "".
C4_FormatFraction ==
    fmtText # NotFormatted =>
        LET posKeys == PositiveKeys(fmtUnit)
            negKeys == NegativeKeys(fmtUnit)
        IN  /\ (posKeys = {} /\ negKeys = {}) => fmtText = << >>
            /\ (posKeys # {} /\ negKeys = {}) =>
                  \E p \in Ascending(fmtUnit, posKeys) : fmtText = Product(fmtUnit, p, 1, 1)
            /\ (posKeys # {} /\ negKeys # {}) =>
                  \E p \in Ascending(fmtUnit, posKeys), q \in Ascending(fmtUnit, negKeys) :
                      fmtText = Product(fmtUnit, p, 1, 1) \o <<" ", "/", " ">>
                                 \o (IF Cardinality(negKeys) > 1
                                     THEN <<"(">> \o Product(fmtUnit, q, -1, 1) \o <<")">>
                                     ELSE Product(fmtUnit, q, -1, 1))
            /\ HasExactly(fmtUnit, {<<(<<"m">>), 1>>}) => fmtText = <<"m">>
            /\ HasExactly(fmtUnit, {<<(<<"m">>), 1>>, <<(<<"s">>), -2>>}) =>
                  fmtText = <<"m", " ", "/", " ", "s", "^", "2">>
            /\ HasExactly(fmtUnit, {<<(<<"k", "g">>), 1>>, <<(<<"m">>), 1>>, <<(<<"s">>), -2>>}) =>
                  fmtText = <<"k", "g", " ", "*", " ", "m", " ", "/", " ", "s", "^", "2">>

\* "m / (kg * s^2)" has been produced
C4_Witness ==
    /\ PresentPairs(fmtUnit) = {<<(<<"m">>), 1>>, <<(<<"k", "g">>), -1>>, <<(<<"s">>), -2>>}
    /\ fmtText = <<"m", " ", "/", " ", "(", "k", "g", " ", "*", " ", "s", "^", "2", ")">>

\* C9: a unit with a non-zero exponent and no positive exponent formats as its
\* negative dimensions in ascending symbol order joined by " * ", each as
\* "<symbol>^<exponent>" with the original negative exponent; the text has no
\* " / ", no parenthesis and no negated exponent.
C9_FormatAllNegative ==
    (fmtText # NotFormatted /\ PositiveKeys(fmtUnit) = {} /\ NegativeKeys(fmtUnit) # {}) =>
        /\ \E q \in Ascending(fmtUnit, NegativeKeys(fmtUnit)) :
              fmtText = Product(fmtUnit, q, 1, 1)
        /\ ~Contains(fmtText, <<" ", "/", " ">>)
        /\ ~Contains(fmtText, <<"(">>)
        /\ ~Contains(fmtText, <<")">>)
        /\ \A i \in 1..Len(fmtText) :
              fmtText[i] = "^" => (i < Len(fmtText) /\ fmtText[i + 1] = "-")
        /\ Cardinality({i \in 1..Len(fmtText) : fmtText[i] = "^"})
               = Cardinality(NegativeKeys(fmtUnit))
        /\ HasExactly(fmtUnit, {<<(<<"s">>), -1>>}) => fmtText = <<"s", "^", "-", "1">>
        /\ HasExactly(fmtUnit, {<<(<<"m">>), -1>>, <<(<<"s">>), -2>>}) =>
              fmtText = <<"m", "^", "-", "1", " ", "*", " ", "s", "^", "-", "2">>

\* "m^-1 * s^-2" has been produced
C9_Witness ==
    /\ PresentPairs(fmtUnit) = {<<(<<"m">>), -1>>, <<(<<"s">>), -2>>}
    /\ Len(fmtUnit) = 3
    /\ fmtText = <<"m", "^", "-", "1", " ", "*", " ", "s", "^", "-", "2">>

\* C10: formatUnit returns the same string for a unit and for the unit with
\* its keys permuted or with undefined or zero-exponent dimensions added or
\* removed, also when two dimensions carry the same symbol.
C10_OrderIndependent ==
    (fmtFirst # NotFormatted /\ fmtText # NotFormatted) => fmtText = fmtFirst

(***************************************************************************)
(* Properties of the unit algebra and of the measures.                     *)
(***************************************************************************)
UnitOps == {"times", "over", "per", "div", "toThe", "squared", "cubed", "inverse",
            "reciprocal"}
GatedOps == {"plus", "minus", "compare", "lt", "lte", "eq", "neq", "gte", "gt"}

\* the exponent of dimension d in the true result of the call in outcome
Exact(d) ==
    CASE outcome.op = "times" -> exponentOf(m.unit, d) + exponentOf(other.unit, d)
      [] outcome.op \in {"over", "per", "div"} ->
             exponentOf(m.unit, d) - exponentOf(other.unit, d)
      [] OTHER -> exponentOf(m.unit, d) * outcome.power

AllInDomain(unit) == \A d \in UnitDimensionSet : InDomain(exponentOf(unit, d))

\* the call in outcome returned the true result, whole, or threw ArithmeticError
\* because some exponent of the true result is outside the domain
ExactOrArithmeticError ==
    IF \A d \in UnitDimensionSet : InDomain(Exact(d))
    THEN /\ outcome.status = "ok"
         /\ \A d \in UnitDimensionSet : exponentOf(outcome.measure.unit, d) = Exact(d)
    ELSE /\ outcome.status = "ArithmeticError"
         /\ outcome.measure = NoMeasure

\* C2: from units with all exponents in the domain, every unit returned by
\* times / over / toThe / inverse has all its exponents in the domain, and an
\* operation whose true result has an exponent outside the domain throws
\* ArithmeticError instead of clamping or wrapping; so does raising to the
\* power 2 a unit with a dimension at the largest exponent.
C2_ExponentsStayInDomain ==
    /\ AllInDomain(m.unit)
    /\ AllInDomain(other.unit)
    /\ outcome.op \in UnitOps =>
          /\ ExactOrArithmeticError
          /\ outcome.status = "ok" => AllInDomain(outcome.measure.unit)
          /\ (outcome.power = 2
              /\ \E d \in UnitDimensionSet : exponentOf(m.unit, d) = MaxExponent) =>
                 outcome.status = "ArithmeticError"

\* a unit with a dimension at the largest exponent has been raised to the power 2
C2_Witness ==
    /\ outcome.op = "toThe"
    /\ outcome.power = 2
    /\ \E d \in UnitDimensionSet : exponentOf(m.unit, d) = MaxExponent
    /\ outcome.status = "ArithmeticError"

SameExponents(left, right) ==
    \A d \in UnitDimensionSet : exponentOf(left, d) = exponentOf(right, d)

\* C3: plus, minus, compare and lt/lte/eq/neq/gte/gt succeed exactly when the
\* units of the two measures are equal once zero exponents are removed;
\* otherwise they throw UnitMismatchError and produce no value; the unit of a
\* sum or difference is the receiver's unit.
C3_CompatibilityGate ==
    outcome.op \in GatedOps =>
        /\ outcome.status = "ok" <=> SameExponents(m.unit, other.unit)
        /\ outcome.status # "ok" =>
              /\ outcome.status = "UnitMismatchError"
              /\ outcome.measure = NoMeasure
              /\ outcome.number = 0
              /\ outcome.truth = FALSE
        /\ (outcome.status = "ok" /\ outcome.op \in {"plus", "minus"}) =>
              outcome.measure.unit = m.unit

\* a sum of two measures whose units differ only in a zero exponent
C3_Witness ==
    /\ outcome.op = "plus"
    /\ outcome.status = "ok"
    /\ m.unit # other.unit
    /\ m.unit # dimensionless
    /\ outcome.measure.unit = m.unit

\* C5: u * v and v * u both throw ArithmeticError or are the same canonical
\* unit; when (u * v) * w and u * (v * w) both succeed they are the same
\* canonical unit.
C5_CommutativeAssociative ==
    /\ stage = "commuted" =>
          /\ prodL.ok <=> prodR.ok
          /\ ~prodL.ok => (prodL.error = "ArithmeticError" /\ prodR.error = "ArithmeticError")
          /\ prodL.ok => canonical(prodL.unit) = canonical(prodR.unit)
    /\ (stage = "outer" /\ prodL.ok /\ prodR.ok) =>
          canonical(prodL.unit) = canonical(prodR.unit)

\* both products of three units, none dimensionless, have succeeded
C5_Witness ==
    /\ stage = "outer"
    /\ prodL.ok /\ prodR.ok
    /\ canonical(unitU) # {} /\ canonical(unitV) # {} /\ canonical(unitW) # {}
    /\ canonical(prodL.unit) # {}

\* C6: u / u is the dimensionless unit; when u to the power -1 succeeds,
\* u * u^-1 is the dimensionless unit; when a.over(b) succeeds,
\* a.over(b).times(b) succeeds with a's unit and eq(a) is true of it.
C6_InverseLaws ==
    /\ (outcome.op = "over" /\ m.unit = other.unit) =>
          (outcome.status = "ok" /\ outcome.measure.unit = dimensionless)
    /\ (outcome.op = "inverse" /\ outcome.status = "ok") =>
          LET product == multiplyUnits(m.unit, outcome.measure.unit)
          IN  product.ok /\ product.unit = dimensionless
    /\ (outcome.op = "over" /\ outcome.status = "ok") =>
          LET back == times(outcome.measure, other)
          IN  /\ back.status = "ok"
              /\ SameExponents(back.measure.unit, m.unit)
              /\ comparison("eq", back.measure, m).status = "ok"
              /\ comparison("eq", back.measure, m).truth

\* a quotient of two different units, neither dimensionless, has been taken
C6_Witness ==
    /\ outcome.op = "over"
    /\ outcome.status = "ok"
    /\ canonical(m.unit) # {} /\ canonical(other.unit) # {}
    /\ canonical(m.unit) # canonical(other.unit)
    /\ canonical(outcome.measure.unit) # {}

\* C7: every measure derived from the base measures by times / over / per /
\* div / toThe / squared / cubed / inverse has the value 1.
C7_QuantitiesNormalized ==
    /\ m.value = [num |-> 1, den |-> 1]
    /\ other.value = [num |-> 1, den |-> 1]
    /\ (outcome.status = "ok" /\ outcome.op \in UnitOps) =>
          outcome.measure.value = [num |-> 1, den |-> 1]

\* a derived quantity, length / time, is held and has been cubed
C7_Witness ==
    /\ exponentOf(m.unit, "length") = 1
    /\ exponentOf(m.unit, "time") = -1
    /\ m.value = [num |-> 1, den |-> 1]
    /\ outcome.op = "cubed"
    /\ outcome.status = "ok"

C8_NothingPartial ==
    /\ outcome.status \notin {"ok", "none"} =>
          /\ outcome.status \in {"ArithmeticError", "UnitMismatchError"}
          /\ outcome.measure = NoMeasure
    /\ outcome.op \in UnitOps => ExactOrArithmeticError

C8_OperandsKept ==
    (outcome = NoOutcome /\ outcome' # NoOutcome) => (m' = m /\ other' = other)

\* C8: a failed times / over / toThe / plus / minus / compare leaves no result
\* and no partly computed unit (one dimension out of the domain fails the
\* whole operation), and no operation, failed or not, changes the value, unit
\* or symbol of its receiver or argument.
C8_Atomic == [](C8_NothingPartial) /\ [][C8_OperandsKept]_vars

\* a product in which one dimension leaves the domain and the other does not
C8_Witness ==
    /\ outcome.op = "times"
    /\ outcome.status = "ArithmeticError"
    /\ ~InDomain(exponentOf(m.unit, "length") + exponentOf(other.unit, "length"))
    /\ exponentOf(other.unit, "time") # 0
    /\ InDomain(exponentOf(m.unit, "time") + exponentOf(other.unit, "time"))
====
